---------------------------- MODULE Spec2Model ----------------------------
(***************************************************************************)
(* A model of setlist_to_playlist.py: the setlist fetcher                  *)
(* (SetlistClient.write_concerts_to_json and its retry loop) and the       *)
(* playlist builder (SpotifyClient.populate_year_spotify_playlist).        *)
(*                                                                         *)
(* Text is modelled as a sequence of one-character strings, so that        *)
(* formatting (dates, file names) and lower-casing are computed and not    *)
(* assumed.  Python's None is the empty sequence and a value x is <<x>>.   *)
(*                                                                         *)
(* The steps are the points where the program waits for a service: a       *)
(* request to setlist.fm and its response, a search, the playlist lookup   *)
(* and creation, the append call.  A call that raises ends the run, as     *)
(* nothing in the program catches it.  A row whose concert date or display *)
(* date is no calendar date raises in datetime.date; such rows are explored *)
(* by SpecDates only.                                                      *)
(***************************************************************************)
EXTENDS Integers, Sequences, FiniteSets, TLC

(* ------------------------------ bounds --------------------------------- *)

\* largest configured setlist_num_retries explored
MaxRetries == 2
\* longest concerts table explored
MaxRecords == 2
\* largest number of setlist files in the input directory explored
MaxConcerts == 2
\* number of runs of create_playlist on one account explored
MaxRuns == 2

(* --------------------------- text helpers ------------------------------ *)

None == <<>>

Some(x) == <<x>>

DigitChars == <<"0", "1", "2", "3", "4", "5", "6", "7", "8", "9">>

RECURSIVE IntStr(_)
\* str(n) / "{}".format(n) of a natural number
IntStr(n) ==
    IF n < 10 THEN <<DigitChars[n + 1]>>
    ELSE IntStr(n \div 10) \o <<DigitChars[(n % 10) + 1]>>

RECURSIVE ZeroPad(_, _)
\* the last w decimal digits of n, zero padded (%d, %m, %Y and isoformat)
ZeroPad(n, w) ==
    IF w = 0 THEN <<>>
    ELSE ZeroPad(n \div 10, w - 1) \o <<DigitChars[(n % 10) + 1]>>

\* datetime.date(y, m, d)
Date(y, m, d) == [year |-> y, month |-> m, day |-> d]

\* str(date): YYYY-MM-DD
IsoFormat(d) ==
    ZeroPad(d.year, 4) \o <<"-">> \o ZeroPad(d.month, 2) \o <<"-">> \o ZeroPad(d.day, 2)

\* date.strftime("%d-%m-%Y")
FormatQueryDate(d) ==
    ZeroPad(d.day, 2) \o <<"-">> \o ZeroPad(d.month, 2) \o <<"-">> \o ZeroPad(d.year, 4)

\* calendar.isleap
IsLeap(y) == (y % 4 = 0) /\ ((y % 100 # 0) \/ (y % 400 = 0))

DaysInMonth(y, m) ==
    IF m = 2 THEN (IF IsLeap(y) THEN 29 ELSE 28)
    ELSE IF m \in {4, 6, 9, 11} THEN 30 ELSE 31

\* whether datetime.date(y, m, d) is built; it raises ValueError otherwise
ValidDate(y, m, d) ==
    /\ y \in 1..9999
    /\ m \in 1..12
    /\ d \in 1..DaysInMonth(y, m)

(* ----------------------- the fetcher's inputs --------------------------- *)

\* an empty cell of the concerts file (read with keep_default_na=False); it is
\* falsy, like the empty string pandas yields
Empty == 0

Row(g, d, m, y, jd, jm, jy) ==
    [Group |-> g, Day |-> d, Month |-> m, Year |-> y,
     JSON_Day |-> jd, JSON_Month |-> jm, JSON_Year |-> jy]

\* the rows a concerts file is made of in this model: a plain concert, a
\* concert of the same group on another day whose override day gives it the
\* same display date, and a concert of another group
ConcertRows ==
    { Row(<<"a">>, 1, 1, 2023, Empty, Empty, Empty),
      Row(<<"a">>, 2, 1, 2023, 1, Empty, Empty),
      Row(<<"2", "_", "a">>, 1, 1, 2023, Empty, Empty, Empty) }

Tables == UNION { [1..n -> ConcertRows] : n \in 0..MaxRecords }

\* rows for the override columns: no override, each component overridden
\* alone, all three overridden, and an override of the month that makes the
\* display date the 31st of February
DateRows ==
    { Row(<<"a">>, 2, 1, 2023, Empty, Empty, Empty),
      Row(<<"a">>, 2, 1, 2023, 5, Empty, Empty),
      Row(<<"a">>, 2, 1, 2023, Empty, 3, Empty),
      Row(<<"a">>, 2, 1, 2023, Empty, Empty, 2024),
      Row(<<"a">>, 2, 1, 2023, 5, 3, 2024),
      Row(<<"a">>, 31, 1, 2023, Empty, 2, Empty) }

DateTables == UNION { [1..n -> DateRows] : n \in 0..MaxRecords }

\* the HTTP reason phrases a failed request comes back with
Reasons == {"Too Many Requests", "Bad Gateway", "Not Found"}

\* the status code a reason phrase comes with
StatusOf(reason) ==
    CASE reason = "Too Many Requests" -> 429
      [] reason = "Bad Gateway" -> 502
      [] reason = "Not Found" -> 404

\* the configured sets of retriable reasons explored
RetriableChoices == { {"Too Many Requests"}, {"Too Many Requests", "Bad Gateway"} }

(* ------------------- the setlist.fm response bodies --------------------- *)

Song(name) == [name |-> name]

SetOf(songs) == [song |-> songs]

Setlist(artist, date, sets) ==
    [artist |-> [name |-> artist], eventDate |-> date, sets |-> [set |-> sets]]

OneSet == <<SetOf(<<Song(<<"s">>)>>)>>

\* what a 200 response to a query may hold: no setlist, one setlist without
\* sets, one with a set, or a setlist without sets followed by one with a set
Bodies(p) ==
    { [setlist |-> <<>>],
      [setlist |-> <<Setlist(p.artistName, p.date, <<>>)>>],
      [setlist |-> <<Setlist(p.artistName, p.date, OneSet)>>],
      [setlist |-> <<Setlist(p.artistName, p.date, <<>>),
                     Setlist(p.artistName, p.date, OneSet)>>] }

NoParams == [artistName |-> <<>>, date |-> <<>>]

NoResponse == [status_code |-> 0, reason |-> "", body |-> [setlist |-> <<>>]]

VARIABLES
    setlist_num_retries,        \* SetlistClient._setlist_num_retries
    setlist_retriable_errors,   \* SetlistClient._setlist_retriable_errors
    concerts_df,                \* the rows of the concerts file
    files,                      \* the output directory: file name -> document
    pc,                         \* where the pipeline stands
    index,                      \* 0-based index of the row of the loop
    params,                     \* the query of the fetch: artistName, date
    num_retries,                \* __get_setlist's counter
    response,                   \* the last response received by the fetch
    result,                     \* what __get_setlist returned
    requests,                   \* history: requests issued by the fetch
    received,                   \* history: responses received by the fetch
    outcome,                    \* history: how the fetch ended
    fetchLog,                   \* history: rows fetched in this run, in order
    returned,                    \* history: what each fetch of this run returned
    writes,                     \* history: files written in this run, in order
    lost,                       \* history: documents replaced on disk in this run
    sp_playlists,               \* the user's playlists, as user_playlists lists them
    playlist_name,              \* the playlist_name argument, or None
    dir_files,                  \* the setlist files of the input directory, as listed
    playlist_id,                \* the playlist the run populates, or None
    concerts_dict,              \* what __read_setlists_from_json returned
    ci,                         \* position of the concert of the loop (1-based)
    pos,                        \* <<set, song>>: the song the loops stand at
    track_uris,                 \* the batch of the concert
    searches,                   \* history: the searches of the concert, in order
    appends,                    \* history: the append calls of the run, in order
    log,                        \* history: warnings and errors logged by the run
    created,                    \* history: ids of the playlists created, all runs
    runs                        \* history: runs of create_playlist started

fetchVars == <<setlist_num_retries, setlist_retriable_errors, concerts_df, files,
               index, params, num_retries, response, result, requests, received,
               outcome, fetchLog, returned, writes, lost>>

playVars == <<sp_playlists, playlist_name, dir_files, playlist_id, concerts_dict,
              ci, pos, track_uris, searches, appends, log, created, runs>>

vars == <<pc, fetchVars, playVars>>

config == <<setlist_num_retries, setlist_retriable_errors>>

(* ----------------------------- __get_setlist ---------------------------- *)

\* mutant: the loop stops one round early
RetryLoopStrict(n) == n < setlist_num_retries

\* the loop condition of the retry loop
RetryLoopContinues(n) == n <= setlist_num_retries

\* mutant: any setlist with a set counts, not only the first
HasSetlistAnywhere(body) ==
    \E i \in 1..Len(body.setlist) : Len(body.setlist[i].sets.set) > 0

\* a 200 response is returned when it holds a setlist and the first one has a set
HasSetlist(body) ==
    /\ Len(body.setlist) > 0
    /\ Len(body.setlist[1].sets.set) > 0

\* mutant: every failure is retried
AnyReasonRetriable(reason) == TRUE

\* whether a failure reason is one of the configured retriable ones
IsRetriable(reason) == reason \in setlist_retriable_errors

(* ----------------------- write_concerts_to_json ------------------------- *)

\* not json_x -> x, else json_x
Override(json_x, x) == IF json_x = Empty THEN x ELSE json_x

\* mutant: the query date takes the override components too
ConcertDateFromOverride(row) ==
    Date(Override(row.JSON_Year, row.Year), Override(row.JSON_Month, row.Month),
         Override(row.JSON_Day, row.Day))

\* datetime.date(int(year), int(month), int(day))
ConcertDate(row) == Date(row.Year, row.Month, row.Day)

PlaylistDate(row) ==
    Date(Override(row.JSON_Year, row.Year), Override(row.JSON_Month, row.Month),
         Override(row.JSON_Day, row.Day))

\* mutant: the sequence number is left out of the name
SetlistNameNoSequence(playlist_date, idx, group) ==
    IsoFormat(playlist_date) \o <<"_">> \o group \o <<".", "j", "s", "o", "n">>

\* "{}_{}_{}.json".format(playlist_date, index+1, group)
SetlistName(playlist_date, idx, group) ==
    IsoFormat(playlist_date) \o <<"_">> \o IntStr(idx + 1) \o <<"_">> \o group
        \o <<".", "j", "s", "o", "n">>

\* whether lines 329-330 build both dates of a row
RowDatesValid(row) ==
    /\ ValidDate(row.Year, row.Month, row.Day)
    /\ ValidDate(PlaylistDate(row).year, PlaylistDate(row).month, PlaylistDate(row).day)

RowName(idx) ==
    SetlistName(PlaylistDate(concerts_df[idx + 1]), idx, concerts_df[idx + 1].Group)

\* mutant: an existing file is kept (exclusive creation)
WriteFileKeep(dir, name, doc) == IF name \in DOMAIN dir THEN dir ELSE (name :> doc) @@ dir

\* open(local_output_file, "w") and write: the name now holds the document
WriteFile(dir, name, doc) == (name :> doc) @@ dir

\* history: the document a write replaces
Displaced(dir, name, doc) ==
    IF name \in DOMAIN dir /\ dir[name] # doc
    THEN {[name |-> name, doc |-> dir[name]]}
    ELSE {}

\* mutant: a fetch that returns nothing ends the run
AfterFetchStopOnFailure(res, how) ==
    /\ result' = res
    /\ outcome' = how
    /\ returned' = Append(returned, res)
    /\ IF res # None
       THEN /\ files' = WriteFile(files, RowName(index), res[1])
            /\ writes' = Append(writes, [name |-> RowName(index), index |-> index,
                                           doc |-> res[1]])
            /\ lost' = lost \cup Displaced(files, RowName(index), res[1])
       ELSE UNCHANGED <<files, writes, lost>>
    /\ index' = index + 1
    /\ pc' = IF res = None THEN "done" ELSE "row"

\* lines 335-337 and the loop's step: what follows the return of __get_setlist
AfterFetch(res, how) ==
    /\ result' = res
    /\ outcome' = how
    /\ returned' = Append(returned, res)
    /\ IF res # None
       THEN /\ files' = WriteFile(files, RowName(index), res[1])
            /\ writes' = Append(writes, [name |-> RowName(index), index |-> index,
                                           doc |-> res[1]])
            /\ lost' = lost \cup Displaced(files, RowName(index), res[1])
       ELSE UNCHANGED <<files, writes, lost>>
    /\ index' = index + 1
    /\ pc' = "row"

\* the loop of write_concerts_to_json reaches a row and calls __get_setlist
ReadRow ==
    /\ pc = "row"
    /\ index < Len(concerts_df)
    /\ RowDatesValid(concerts_df[index + 1])
    /\ LET row == concerts_df[index + 1] IN
         params' = [artistName |-> row.Group, date |-> FormatQueryDate(ConcertDate(row))]
    /\ num_retries' = 0
    /\ requests' = 0
    /\ received' = 0
    /\ response' = NoResponse
    /\ result' = None
    /\ outcome' = "running"
    /\ fetchLog' = Append(fetchLog, index)
    /\ pc' = "request"
    /\ UNCHANGED <<config, concerts_df, files, index, returned, writes, lost>>
    /\ UNCHANGED playVars

\* datetime.date raises ValueError on a row: nothing catches it, the run ends
\* before the row is fetched
RowRaises ==
    /\ pc = "row"
    /\ index < Len(concerts_df)
    /\ ~RowDatesValid(concerts_df[index + 1])
    /\ pc' = "date raised"
    /\ UNCHANGED fetchVars
    /\ UNCHANGED playVars

\* the retry loop goes round: requests.get is called
SendRequest ==
    /\ pc = "request"
    /\ RetryLoopContinues(num_retries)
    /\ requests' = requests + 1
    /\ pc' = "await"
    /\ UNCHANGED <<config, concerts_df, files, index, params, num_retries, response,
                   result, received, outcome, fetchLog, returned, writes, lost>>
    /\ UNCHANGED playVars

\* the retry loop ends: maximum number of retries reached
GiveUp ==
    /\ pc = "request"
    /\ ~RetryLoopContinues(num_retries)
    /\ AfterFetch(None, "exhausted")
    /\ UNCHANGED <<config, concerts_df, params, num_retries, response, requests,
                   received, fetchLog>>
    /\ UNCHANGED playVars

\* a 200 response arrives
ReceiveOk ==
    /\ pc = "await"
    /\ \E body \in Bodies(params) :
         /\ response' = [status_code |-> 200, reason |-> "OK", body |-> body]
         /\ IF HasSetlist(body)
            THEN AfterFetch(Some(body), "found")
            ELSE AfterFetch(None, "not found")
    /\ received' = received + 1
    /\ UNCHANGED <<config, concerts_df, params, num_retries, requests, fetchLog>>
    /\ UNCHANGED playVars

\* a response with another status arrives
ReceiveFailure ==
    /\ pc = "await"
    /\ \E reason \in Reasons :
         /\ response' = [status_code |-> StatusOf(reason), reason |-> reason,
                         body |-> [setlist |-> <<>>]]
         /\ IF IsRetriable(reason)
            THEN /\ num_retries' = num_retries + 1
                 /\ pc' = "request"
                 /\ UNCHANGED <<files, index, result, outcome, returned, writes, lost>>
            ELSE /\ AfterFetch(None, "failed")
                 /\ UNCHANGED num_retries
    /\ received' = received + 1
    /\ UNCHANGED <<config, concerts_df, params, requests, fetchLog>>
    /\ UNCHANGED playVars

\* requests.get raises (no connection): nothing catches it, the run ends
RequestRaises ==
    /\ pc = "await"
    /\ pc' = "request raised"
    /\ UNCHANGED fetchVars
    /\ UNCHANGED playVars

\* the loop over the rows ends
EndOfTable ==
    /\ pc = "row"
    /\ index = Len(concerts_df)
    /\ pc' = "done"
    /\ UNCHANGED <<config, concerts_df, files, index, params, num_retries, response,
                   result, requests, received, outcome, fetchLog, returned, writes, lost>>
    /\ UNCHANGED playVars

\* the command is run again, on another concerts file, into the same directory
RunAgain ==
    /\ pc \in {"done", "request raised", "date raised"}
    /\ concerts_df' \in Tables
    /\ index' = 0
    /\ pc' = "row"
    /\ params' = NoParams
    /\ num_retries' = 0
    /\ response' = NoResponse
    /\ result' = None
    /\ requests' = 0
    /\ received' = 0
    /\ outcome' = "none"
    /\ fetchLog' = <<>>
    /\ returned' = <<>>
    /\ writes' = <<>>
    /\ lost' = {}
    /\ UNCHANGED <<config, files>>
    /\ UNCHANGED playVars

\* the playlist builder is not running
PlayIdle ==
    /\ sp_playlists = <<>>
    /\ playlist_name = None
    /\ dir_files = <<>>
    /\ playlist_id = None
    /\ concerts_dict = <<>>
    /\ ci = 0
    /\ pos = <<0, 0>>
    /\ track_uris = <<>>
    /\ searches = <<>>
    /\ appends = <<>>
    /\ log = <<>>
    /\ created = {}
    /\ runs = 0

InitFetch ==
    /\ setlist_num_retries \in 0..MaxRetries
    /\ setlist_retriable_errors \in RetriableChoices
    /\ concerts_df \in Tables
    /\ files = << >>
    /\ pc = "row"
    /\ index = 0
    /\ params = NoParams
    /\ num_retries = 0
    /\ response = NoResponse
    /\ result = None
    /\ requests = 0
    /\ received = 0
    /\ outcome = "none"
    /\ fetchLog = <<>>
    /\ returned = <<>>
    /\ writes = <<>>
    /\ lost = {}
    /\ PlayIdle

\* one run of download_setlists
NextFetch ==
    \/ ReadRow
    \/ SendRequest
    \/ GiveUp
    \/ ReceiveOk
    \/ ReceiveFailure
    \/ RequestRaises
    \/ EndOfTable

SpecFetch == InitFetch /\ [][NextFetch]_vars

\* download_setlists run any number of times into one output directory
InitRerun ==
    /\ InitFetch
    /\ setlist_num_retries = 0
    /\ setlist_retriable_errors = {"Too Many Requests"}

NextRerun ==
    \/ ReadRow
    \/ SendRequest
    \/ GiveUp
    \/ ReceiveOk
    \/ ReceiveFailure
    \/ RequestRaises
    \/ EndOfTable
    \/ RunAgain

SpecRerun == InitRerun /\ [][NextRerun]_vars

\* one run of download_setlists on a concerts file that uses the override
\* columns
InitDates ==
    /\ setlist_num_retries = 0
    /\ setlist_retriable_errors = {"Too Many Requests"}
    /\ concerts_df \in DateTables
    /\ files = << >>
    /\ pc = "row"
    /\ index = 0
    /\ params = NoParams
    /\ num_retries = 0
    /\ response = NoResponse
    /\ result = None
    /\ requests = 0
    /\ received = 0
    /\ outcome = "none"
    /\ fetchLog = <<>>
    /\ returned = <<>>
    /\ writes = <<>>
    /\ lost = {}
    /\ PlayIdle

NextDates ==
    \/ ReadRow
    \/ RowRaises
    \/ SendRequest
    \/ GiveUp
    \/ ReceiveOk
    \/ ReceiveFailure
    \/ RequestRaises
    \/ EndOfTable

SpecDates == InitDates /\ [][NextDates]_vars

(* ======================= the playlist builder =========================== *)

(* ---------------------- the builder's inputs ---------------------------- *)

\* str.lower() on the letters this model uses
LowerChar(c) ==
    CASE c = "A" -> "a"
      [] c = "O" -> "o"
      [] c = "S" -> "s"
      [] c = "T" -> "t"
      [] OTHER -> c

Lower(str) == [i \in 1..Len(str) |-> LowerChar(str[i])]

\* the input_dir argument
input_dir == <<"x">>

\* "Concerts_{}".format(input_dir)
DefaultPlaylistName(dir) == <<"C", "o", "n", "c", "e", "r", "t", "s", "_">> \o dir

\* the setlist documents a file of the input directory may hold: one set of
\* two songs; three sets, the middle one without songs; one set without songs
SetlistDocs ==
    { [setlist |-> <<Setlist(<<"a">>, <<>>, <<SetOf(<<Song(<<"s">>), Song(<<"t">>)>>)>>)>>],
      [setlist |-> <<Setlist(<<"a">>, <<>>,
                       <<SetOf(<<Song(<<"t">>)>>), SetOf(<<>>), SetOf(<<Song(<<"s">>)>>)>>)>>],
      [setlist |-> <<Setlist(<<"a">>, <<>>, <<SetOf(<<>>)>>)>>] }

ConcertFileNames == <<"c1", "c2", "c3", "c4">>

\* the listings of an input directory: up to MaxConcerts files
Directories ==
    UNION { { [i \in 1..n |-> [name |-> ConcertFileNames[i], json |-> d[i]]] :
                d \in [1..n -> SetlistDocs] } : n \in 0..MaxConcerts }

Playlist(id, name, tracks) == [id |-> id, name |-> name, tracks |-> tracks]

\* the playlists the account holds when the first run starts
Accounts ==
    { <<>>,
      <<Playlist(1, <<"p">>, <<>>), Playlist(2, <<"P">>, <<>>), Playlist(3, <<"P">>, <<>>)>>,
      <<Playlist(1, DefaultPlaylistName(input_dir), <<>>)>> }

\* the playlist_name arguments explored
PlaylistNames == {None, Some(<<"P">>), Some(DefaultPlaylistName(input_dir))}

Track(artist, name, uri) == [artists |-> <<[name |-> artist]>>, name |-> name, uri |-> uri]

\* the tracks a search may come back with
Catalog == { Track(<<"A">>, <<"S">>, "uri:AS"), Track(<<"O">>, <<"s">>, "uri:Os") }

\* sp.search(q, type="track", limit=1): no item, or one track
SearchResponses ==
    {[tracks |-> [items |-> <<>>]]} \cup {[tracks |-> [items |-> <<t>>]] : t \in Catalog}

(* ----------------------- __search_spotify_track ------------------------- *)

\* "{} {}".format(track_name, artist_name)
Query(track_name, artist_name) == track_name \o <<" ">> \o artist_name

\* mutant: the names are compared as they are
MismatchExact(item, track_name, artist_name) ==
    \/ item.artists[1].name # artist_name
    \/ item.name # track_name

\* the warning's condition: artist or title differ, case ignored
Mismatch(item, track_name, artist_name) ==
    \/ Lower(item.artists[1].name) # Lower(artist_name)
    \/ Lower(item.name) # Lower(track_name)

\* what __search_spotify_track returns: the first item's uri, or None
SearchUri(results) ==
    IF Len(results.tracks.items) > 0
    THEN Some(results.tracks.items[1].uri)
    ELSE None

\* the warning __search_spotify_track logs, if any
SearchWarnings(results, track_name, artist_name, c, k) ==
    IF Len(results.tracks.items) > 0
         /\ Mismatch(results.tracks.items[1], track_name, artist_name)
    THEN <<[level |-> "WARNING", concert |-> c, search |-> k]>>
    ELSE <<>>

(* ---------------------- playlist lookup and creation -------------------- *)

Min(S) == CHOOSE x \in S : \A y \in S : x <= y

Max(S) == CHOOSE x \in S : \A y \in S : x >= y

\* mutant: the last playlist of that name is taken
GetPlaylistIdByNameLast(playlists, name) ==
    LET hits == {i \in 1..Len(playlists) : playlists[i].name = name} IN
      IF hits = {} THEN None ELSE Some(playlists[Max(hits)].id)

\* __get_playlist_id_by_name: the id of the first listed playlist of that name
GetPlaylistIdByName(playlists, name) ==
    LET hits == {i \in 1..Len(playlists) : playlists[i].name = name} IN
      IF hits = {} THEN None ELSE Some(playlists[Min(hits)].id)

\* the id the service gives a new playlist: one no playlist has
FreshId(playlists) == Len(playlists) + 1

\* user_playlist_create: the account holds one more playlist, listed first or last
CreatePlaylist(playlists, name, atFront) ==
    LET new == Playlist(FreshId(playlists), name, <<>>) IN
      IF atFront THEN <<new>> \o playlists ELSE Append(playlists, new)

\* playlist_add_items: the tracks are appended to the playlist of that id
AddItems(playlists, id, uris) ==
    [i \in 1..Len(playlists) |->
       IF playlists[i].id = id
       THEN [playlists[i] EXCEPT !.tracks = @ \o uris]
       ELSE playlists[i]]

(* ------------------- populate_year_spotify_playlist --------------------- *)

\* setlist_json["setlist"][0]["sets"]["set"]
SetsOf(setlist_json) == setlist_json.setlist[1].sets.set

\* setlist_json["setlist"][0]["artist"]["name"]
ArtistOf(setlist_json) == setlist_json.setlist[1].artist.name

RECURSIVE SongFrom(_, _, _)
\* the nested loops over sets and songs: the first song at or after <<s, g>>,
\* or <<Len(sets) + 1, 1>> when the loops are over
SongFrom(sets, s, g) ==
    IF s > Len(sets) THEN <<Len(sets) + 1, 1>>
    ELSE IF g <= Len(sets[s].song) THEN <<s, g>>
    ELSE SongFrom(sets, s + 1, 1)

LoopsOver(sets, p) == p[1] > Len(sets)

\* mutant: a song that is not found empties the batch
NextBatchResetOnMiss(uris, uri) == IF uri # None THEN Append(uris, uri[1]) ELSE <<>>

\* if track_uri: track_uris.append(track_uri)
NextBatch(uris, uri) == IF uri # None THEN Append(uris, uri[1]) ELSE uris

\* mutant: the batch is submitted whatever it holds
BatchIsSubmittedAlways(uris) == TRUE

\* if track_uris: the batch is submitted when it is not empty
BatchIsSubmitted(uris) == uris # <<>>

CurrentJson == concerts_dict[ci].json

\* lines 538-544: the playlist is looked up by name, or created
ResolvePlaylist ==
    /\ pc = "resolve"
    /\ \E atFront \in BOOLEAN :
         LET found == IF playlist_name # None
                      THEN GetPlaylistIdByName(sp_playlists, playlist_name[1])
                      ELSE None
             name == IF playlist_name # None
                     THEN playlist_name[1]
                     ELSE DefaultPlaylistName(input_dir)
         IN IF found # None
            THEN /\ playlist_id' = found
                 /\ UNCHANGED <<sp_playlists, created>>
            ELSE /\ sp_playlists' = CreatePlaylist(sp_playlists, name, atFront)
                 /\ playlist_id' = Some(FreshId(sp_playlists))
                 /\ created' = created \cup {FreshId(sp_playlists)}
    /\ pc' = "read"
    /\ UNCHANGED <<playlist_name, dir_files, concerts_dict, ci, pos, track_uris,
                   searches, appends, log, runs>>
    /\ UNCHANGED fetchVars

\* line 547: the setlist files of the directory are read
ReadSetlists ==
    /\ pc = "read"
    /\ concerts_dict' = dir_files
    /\ ci' = 1
    /\ pc' = "concert"
    /\ UNCHANGED <<sp_playlists, playlist_name, dir_files, playlist_id, pos,
                   track_uris, searches, appends, log, created, runs>>
    /\ UNCHANGED fetchVars

\* lines 550-553: the loop reaches a concert
StartConcert ==
    /\ pc = "concert"
    /\ ci <= Len(concerts_dict)
    /\ track_uris' = <<>>
    /\ searches' = <<>>
    /\ pos' = SongFrom(SetsOf(CurrentJson), 1, 1)
    /\ pc' = IF LoopsOver(SetsOf(CurrentJson), pos') THEN "submit" ELSE "search"
    /\ UNCHANGED <<sp_playlists, playlist_name, dir_files, playlist_id,
                   concerts_dict, ci, appends, log, created, runs>>
    /\ UNCHANGED fetchVars

\* lines 555-561: one song is searched, and its track joins the batch
SearchTrack ==
    /\ pc = "search"
    /\ LET song_name == SetsOf(CurrentJson)[pos[1]].song[pos[2]].name
           artist_name == ArtistOf(CurrentJson)
       IN \E results \in SearchResponses :
            LET track_uri == SearchUri(results) IN
              /\ track_uris' = NextBatch(track_uris, track_uri)
              /\ searches' = Append(searches,
                     [track_name |-> song_name, artist_name |-> artist_name,
                      q |-> Query(song_name, artist_name),
                      items |-> results.tracks.items, uri |-> track_uri])
              /\ log' = log
                     \o SearchWarnings(results, song_name, artist_name, ci,
                                       Len(searches) + 1)
                     \o (IF track_uri = None
                         THEN <<[level |-> "ERROR", concert |-> ci,
                                 search |-> Len(searches) + 1]>>
                         ELSE <<>>)
    /\ pos' = SongFrom(SetsOf(CurrentJson), pos[1], pos[2] + 1)
    /\ pc' = IF LoopsOver(SetsOf(CurrentJson), pos') THEN "submit" ELSE "search"
    /\ UNCHANGED <<sp_playlists, playlist_name, dir_files, playlist_id,
                   concerts_dict, ci, appends, created, runs>>
    /\ UNCHANGED fetchVars

\* sp.search raises: nothing catches it, the run ends
SearchRaises ==
    /\ pc = "search"
    /\ pc' = "search raised"
    /\ UNCHANGED playVars
    /\ UNCHANGED fetchVars

\* lines 563-567: the batch is submitted, or an error is logged
SubmitBatch ==
    /\ pc = "submit"
    /\ IF BatchIsSubmitted(track_uris)
       THEN /\ sp_playlists' = AddItems(sp_playlists, playlist_id[1], track_uris)
            /\ appends' = Append(appends, [concert |-> ci, uris |-> track_uris,
                                             searched |-> Len(searches), ok |-> TRUE])
            /\ UNCHANGED log
       ELSE /\ log' = Append(log, [level |-> "ERROR", concert |-> ci, search |-> 0])
            /\ UNCHANGED <<sp_playlists, appends>>
    /\ ci' = ci + 1
    /\ pc' = "concert"
    /\ UNCHANGED <<playlist_name, dir_files, playlist_id, concerts_dict, pos,
                   track_uris, searches, created, runs>>
    /\ UNCHANGED fetchVars

\* mutant: the exception of playlist_add_items is caught and logged, and the
\* loop goes on with the next concert
SubmitRaisesCaught ==
    /\ pc = "submit"
    /\ BatchIsSubmitted(track_uris)
    /\ appends' = Append(appends, [concert |-> ci, uris |-> track_uris,
                                     searched |-> Len(searches), ok |-> FALSE])
    /\ log' = Append(log, [level |-> "ERROR", concert |-> ci, search |-> 0])
    /\ ci' = ci + 1
    /\ pc' = "concert"
    /\ UNCHANGED <<sp_playlists, playlist_name, dir_files, playlist_id,
                   concerts_dict, pos, track_uris, searches, created, runs>>
    /\ UNCHANGED fetchVars

\* playlist_add_items raises: nothing catches it, the run ends
SubmitRaises ==
    /\ pc = "submit"
    /\ BatchIsSubmitted(track_uris)
    /\ appends' = Append(appends, [concert |-> ci, uris |-> track_uris,
                                     searched |-> Len(searches), ok |-> FALSE])
    /\ pc' = "append raised"
    /\ UNCHANGED <<sp_playlists, playlist_name, dir_files, playlist_id,
                   concerts_dict, ci, pos, track_uris, searches, log, created, runs>>
    /\ UNCHANGED fetchVars

\* mutant: a run that appended nothing logs an error when the loop ends
EndOfConcertsLogsNothingAdded ==
    /\ pc = "concert"
    /\ ci > Len(concerts_dict)
    /\ pc' = "done"
    /\ log' = IF appends = <<>>
              THEN Append(log, [level |-> "ERROR", concert |-> 0, search |-> 0])
              ELSE log
    /\ UNCHANGED <<sp_playlists, playlist_name, dir_files, playlist_id, concerts_dict,
                   ci, pos, track_uris, searches, appends, created, runs>>
    /\ UNCHANGED fetchVars

\* the loop over the concerts ends
EndOfConcerts ==
    /\ pc = "concert"
    /\ ci > Len(concerts_dict)
    /\ pc' = "done"
    /\ UNCHANGED playVars
    /\ UNCHANGED fetchVars

\* create_playlist is run again with the same arguments on the same account
PlayAgain ==
    /\ pc \in {"done", "search raised", "append raised"}
    /\ runs < MaxRuns
    /\ runs' = runs + 1
    /\ pc' = "resolve"
    /\ playlist_id' = None
    /\ concerts_dict' = <<>>
    /\ ci' = 0
    /\ pos' = <<0, 0>>
    /\ track_uris' = <<>>
    /\ searches' = <<>>
    /\ appends' = <<>>
    /\ log' = <<>>
    /\ UNCHANGED <<sp_playlists, playlist_name, dir_files, created>>
    /\ UNCHANGED fetchVars

\* the fetcher is not running
FetchIdle ==
    /\ setlist_num_retries = 0
    /\ setlist_retriable_errors = {}
    /\ concerts_df = <<>>
    /\ files = << >>
    /\ index = 0
    /\ params = NoParams
    /\ num_retries = 0
    /\ response = NoResponse
    /\ result = None
    /\ requests = 0
    /\ received = 0
    /\ outcome = "none"
    /\ fetchLog = <<>>
    /\ returned = <<>>
    /\ writes = <<>>
    /\ lost = {}

InitPlay ==
    /\ FetchIdle
    /\ sp_playlists \in Accounts
    /\ playlist_name \in PlaylistNames
    /\ dir_files \in Directories
    /\ pc = "resolve"
    /\ playlist_id = None
    /\ concerts_dict = <<>>
    /\ ci = 0
    /\ pos = <<0, 0>>
    /\ track_uris = <<>>
    /\ searches = <<>>
    /\ appends = <<>>
    /\ log = <<>>
    /\ created = {}
    /\ runs = 1

\* one run of create_playlist
NextPlay ==
    \/ ResolvePlaylist
    \/ ReadSetlists
    \/ StartConcert
    \/ SearchTrack
    \/ SearchRaises
    \/ SubmitBatch
    \/ SubmitRaises
    \/ EndOfConcerts

SpecPlay == InitPlay /\ [][NextPlay]_vars

\* create_playlist run up to MaxRuns times on a directory of at most one file
InitReplay ==
    /\ InitPlay
    /\ Len(dir_files) <= 1

NextReplay ==
    \/ ResolvePlaylist
    \/ ReadSetlists
    \/ StartConcert
    \/ SearchTrack
    \/ SearchRaises
    \/ SubmitBatch
    \/ SubmitRaises
    \/ EndOfConcerts
    \/ PlayAgain

SpecReplay == InitReplay /\ [][NextReplay]_vars

\* both pipelines, each from its first state
Spec == (InitFetch \/ InitPlay) /\ [][NextFetch \/ NextPlay]_vars

(* ------------------------- claims: the fetcher -------------------------- *)

FetchOver == pc \in {"row", "done"} /\ outcome \notin {"none", "running"}

FetchRunning == pc \in {"request", "await"}

FetchCut == pc = "request raised"

\* C1: a fetch that has received k retriable failures, k <= setlist_num_retries,
\* has made k retries: it has issued k requests and goes on to issue request
\* k + 1; it gives up only after setlist_num_retries + 1 requests, all of them
\* answered by a retriable failure, and then returns nothing.
C1_RetriesExactly ==
    /\ FetchRunning =>
         /\ received = num_retries
         /\ received > 0 =>
              /\ response.status_code # 200
              /\ response.reason \in setlist_retriable_errors
    /\ pc = "request" => requests = received
    /\ pc = "await" =>
         /\ requests = received + 1
         /\ received <= setlist_num_retries
    /\ (FetchOver /\ outcome = "exhausted") =>
         /\ requests = setlist_num_retries + 1
         /\ received = setlist_num_retries + 1
         /\ response.reason \in setlist_retriable_errors
         /\ result = None
    /\ (FetchOver /\ response.status_code \notin {0, 200}
          /\ response.reason \in setlist_retriable_errors) =>
         outcome = "exhausted"

C1_Witness ==
    /\ FetchOver
    /\ outcome = "exhausted"
    /\ setlist_num_retries = MaxRetries
    /\ requests = MaxRetries + 1

\* C2: a failure whose reason is not a configured retriable reason ends the
\* fetch at once: nothing is returned and no request follows it, whatever
\* number of retries is left and whatever failures came before.
C2_NonRetriableFailsAtOnce ==
    (response.status_code \notin {0, 200}
       /\ response.reason \notin setlist_retriable_errors) =>
        /\ FetchOver
        /\ outcome = "failed"
        /\ result = None
        /\ returned[Len(returned)] = None
        /\ requests = received
        /\ received = num_retries + 1
        /\ \A i \in 1..Len(writes) : writes[i].index # index - 1

C2_Witness ==
    /\ FetchOver
    /\ response.reason = "Not Found"
    /\ num_retries > 0
    /\ num_retries < setlist_num_retries

AnySetlistNonEmpty(body) ==
    \E i \in 1..Len(body.setlist) : Len(body.setlist[i].sets.set) >= 1

FirstSetlistNonEmpty(body) ==
    /\ Len(body.setlist) >= 1
    /\ Len(body.setlist[1].sets.set) >= 1

\* C3 as stated: a 200 response is returned exactly when some setlist of it
\* has at least one set.
C3_ReturnedIffAnySetlistNonEmpty ==
    response.status_code = 200 =>
        ((result = Some(response.body)) <=> AnySetlistNonEmpty(response.body))

\* C3, amended: a 200 response is returned exactly when it holds a setlist and
\* its first setlist has at least one set; otherwise not found is reported and
\* nothing is returned; either way the fetch ends with that response.
C3_ReturnedIffFirstSetlistNonEmpty ==
    response.status_code = 200 =>
        /\ FetchOver
        /\ requests = received
        /\ received = num_retries + 1
        /\ returned[Len(returned)] = result
        /\ IF FirstSetlistNonEmpty(response.body)
           THEN result = Some(response.body) /\ outcome = "found"
           ELSE result = None /\ outcome = "not found"

C3_Witness ==
    /\ response.status_code = 200
    /\ num_retries > 0
    /\ result = None
    /\ AnySetlistNonEmpty(response.body)

\* C4: the rows are fetched once each, in table order, whatever the earlier
\* fetches returned; a fetch starts with no retry used; a file is written for
\* a row exactly when its fetch returned a setlist.
C4_FailureIsPerConcert ==
    /\ Len(fetchLog) = (IF FetchRunning \/ FetchCut THEN index + 1 ELSE index)
    /\ \A i \in 1..Len(fetchLog) : fetchLog[i] = i - 1
    /\ Len(fetchLog) <= Len(concerts_df)
    /\ pc = "done" => Len(fetchLog) = Len(concerts_df)
    /\ Len(returned) = index
    /\ (FetchRunning /\ requests = 0) => num_retries = 0
    /\ (FetchRunning /\ received = 0) => num_retries = 0
    /\ \A i \in 1..Len(returned) :
         (returned[i] # None) <=> (\E k \in 1..Len(writes) : writes[k].index = i - 1)
    /\ \A k \in 1..Len(writes) :
         /\ returned[writes[k].index + 1] = Some(writes[k].doc)
         /\ \A l \in 1..Len(writes) : writes[l].index = writes[k].index => l = k
         /\ writes[k].name \in DOMAIN files

C4_Witness ==
    /\ pc = "done"
    /\ Len(returned) = 2
    /\ returned[1] = None
    /\ returned[2] # None
    /\ Len(writes) = 1

\* C5: the file name is <display date>_<1-based position>_<group>.json, and
\* two rows of one table never get the same name, also when they have the
\* same group and display date.
C5_NamesDistinct ==
    /\ \A i, j \in 0..(Len(concerts_df) - 1) : i # j => RowName(i) # RowName(j)
    /\ \A k \in 1..Len(writes) :
         LET row == concerts_df[writes[k].index + 1] IN
           writes[k].name =
             IsoFormat(PlaylistDate(row)) \o <<"_">> \o IntStr(writes[k].index + 1)
               \o <<"_">> \o row.Group \o <<".", "j", "s", "o", "n">>
    /\ Cardinality(DOMAIN files) = Len(writes)

C5_Witness ==
    /\ Len(writes) = 2
    /\ concerts_df[1].Group = concerts_df[2].Group
    /\ PlaylistDate(concerts_df[1]) = PlaylistDate(concerts_df[2])
    /\ ConcertDate(concerts_df[1]) # ConcertDate(concerts_df[2])

\* C6: a write to a name that is already on disk replaces the document: the
\* file then holds the later concert's document only, no other file appears
\* or changes, and the run goes on to the next row.
C6_LaterOverwritesEarlier ==
    [][Len(writes') = Len(writes) + 1 =>
         LET w == writes'[Len(writes')] IN
           /\ DOMAIN files' = DOMAIN files \cup {w.name}
           /\ files'[w.name] = w.doc
           /\ \A n \in DOMAIN files \ {w.name} : files'[n] = files[n]
           /\ pc' = "row"
           /\ index' = index + 1]_vars

C6_Witness ==
    \E l \in lost :
        /\ l.name \in DOMAIN files
        /\ files[l.name] # l.doc
        /\ files[l.name].setlist[1].eventDate # l.doc.setlist[1].eventDate
        /\ files[l.name].setlist[1].artist = l.doc.setlist[1].artist

(* --------------------- claims: the playlist builder --------------------- *)

RECURSIVE FlattenSongs(_)
\* the song names of a setlist, set after set
FlattenSongs(sets) ==
    IF sets = <<>> THEN <<>>
    ELSE [i \in 1..Len(sets[1].song) |-> sets[1].song[i].name] \o FlattenSongs(Tail(sets))

RECURSIVE FoundUris(_)
\* the identifiers of the searches that came back with a track, in order
FoundUris(ss) ==
    IF ss = <<>> THEN <<>>
    ELSE (IF Len(ss[1].items) > 0 THEN <<ss[1].items[1].uri>> ELSE <<>>)
           \o FoundUris(Tail(ss))

\* the concert the searches and the batch belong to
InConcert == pc \in {"search", "submit", "search raised", "append raised"}

AfterConcert == pc \in {"concert", "done"} /\ ci > 1

TheConcert == IF AfterConcert THEN ci - 1 ELSE ci

SongsOfTheConcert == FlattenSongs(SetsOf(concerts_dict[TheConcert].json))

\* C7: the batch of a setlist is the identifiers of exactly the songs whose
\* search returned a track, over all sets in set order then song order; a
\* song without a track is left out and the others are resolved as before.
C7_BatchIsFoundSongs ==
    (InConcert \/ AfterConcert) =>
        /\ Len(searches) <= Len(SongsOfTheConcert)
        /\ \A k \in 1..Len(searches) :
             /\ searches[k].track_name = SongsOfTheConcert[k]
             /\ searches[k].artist_name = ArtistOf(concerts_dict[TheConcert].json)
        /\ track_uris = FoundUris(searches)
        /\ pc \in {"submit", "append raised", "concert", "done"} =>
             Len(searches) = Len(SongsOfTheConcert)
        /\ \A j \in 1..Len(appends) :
             appends[j].concert = TheConcert => appends[j].uris = FoundUris(searches)

C7_Witness ==
    /\ AfterConcert
    /\ Len(SetsOf(concerts_dict[TheConcert].json)) = 1
    /\ Len(searches) = 2
    /\ Len(searches[1].items) > 0
    /\ searches[2].items = <<>>
    /\ appends # <<>>
    /\ appends[Len(appends)].uris = <<searches[1].items[1].uri>>

WarnedFor(c, k) ==
    \E j \in 1..Len(log) : log[j] = [level |-> "WARNING", concert |-> c, search |-> k]

\* C8: a track the search returns is accepted whatever its names; a warning is
\* logged exactly when its artist or its title differs from the queried one,
\* case ignored.
C8_AcceptedWithWarning ==
    (InConcert \/ AfterConcert) =>
        \A k \in 1..Len(searches) :
          LET e == searches[k] IN
            IF Len(e.items) > 0
            THEN /\ e.uri = Some(e.items[1].uri)
                 /\ \E n \in 1..Len(track_uris) : track_uris[n] = e.items[1].uri
                 /\ WarnedFor(TheConcert, k) <=>
                      (\/ Lower(e.items[1].artists[1].name) # Lower(e.artist_name)
                       \/ Lower(e.items[1].name) # Lower(e.track_name))
            ELSE /\ e.uri = None
                 /\ ~WarnedFor(TheConcert, k)

C8_Witness ==
    /\ InConcert
    /\ Len(searches) = 2
    /\ Len(searches[1].items) > 0
    /\ searches[1].items[1].name # searches[1].track_name
    /\ searches[1].items[1].artists[1].name # searches[1].artist_name
    /\ ~WarnedFor(ci, 1)
    /\ Len(searches[2].items) > 0
    /\ WarnedFor(ci, 2)
    /\ Len(track_uris) = 2

WantedName ==
    IF playlist_name = None THEN DefaultPlaylistName(input_dir) ELSE playlist_name[1]

Ids(playlists) == {playlists[i].id : i \in 1..Len(playlists)}

Without(seq, i) == [j \in 1..(Len(seq) - 1) |-> IF j < i THEN seq[j] ELSE seq[j + 1]]

\* the step of playlist resolution, as C9 states it
C9_Resolution ==
    LET hits == {i \in 1..Len(sp_playlists) : sp_playlists[i].name = WantedName} IN
      IF playlist_name # None /\ hits # {}
      THEN /\ sp_playlists' = sp_playlists
           /\ created' = created
           /\ \E i \in hits :
                /\ \A j \in hits : i <= j
                /\ playlist_id' = Some(sp_playlists[i].id)
      ELSE /\ Len(sp_playlists') = Len(sp_playlists) + 1
           /\ \E i \in 1..Len(sp_playlists') :
                /\ sp_playlists'[i].name = WantedName
                /\ sp_playlists'[i].tracks = <<>>
                /\ sp_playlists'[i].id \notin Ids(sp_playlists)
                /\ playlist_id' = Some(sp_playlists'[i].id)
                /\ created' = created \cup {sp_playlists'[i].id}
                /\ Without(sp_playlists', i) = sp_playlists

\* C9: with a name, the first listed playlist of exactly that name is used and
\* none is created; one playlist of that name is created exactly when none is
\* listed; without a name one playlist named after the input directory is
\* created by every run, so n runs create n playlists.
C9_PlaylistResolution ==
    /\ [](pc # "resolve" =>
            /\ playlist_id # None
            /\ \E i \in 1..Len(sp_playlists) :
                 /\ sp_playlists[i].id = playlist_id[1]
                 /\ sp_playlists[i].name = WantedName
            /\ playlist_name = None => Cardinality(created) = runs
            /\ playlist_name # None => Cardinality(created) <= 1)
    /\ [][pc = "resolve" => C9_Resolution]_vars

C9_Witness ==
    /\ pc = "done"
    /\ playlist_name = None
    /\ runs = MaxRuns
    /\ Cardinality(created) = MaxRuns
    /\ Cardinality({i \in 1..Len(sp_playlists) :
                      sp_playlists[i].name = DefaultPlaylistName(input_dir)}) >= MaxRuns

RECURSIVE Appended(_)
\* the tracks the successful append calls carried, in order
Appended(as) ==
    IF as = <<>> THEN <<>>
    ELSE (IF as[1].ok THEN as[1].uris ELSE <<>>) \o Appended(Tail(as))

TracksOf(id) ==
    LET i == CHOOSE i \in 1..Len(sp_playlists) : sp_playlists[i].id = id
    IN sp_playlists[i].tracks

NoTracksError(c) ==
    \E j \in 1..Len(log) : log[j] = [level |-> "ERROR", concert |-> c, search |-> 0]

\* C10: the append call of a setlist is made at most once, after the search of
\* its last song, with the whole batch when the batch is not empty, and not at
\* all (an error is logged) when it is empty; so no append falls between two
\* searches of a concert, and a run that fails during a concert's searches
\* leaves none of that concert's tracks in the playlist.
C10_OneBatchAfterAllSearches ==
    /\ \A j \in 1..Len(appends) :
         /\ appends[j].uris # <<>>
         /\ appends[j].concert \in 1..Len(concerts_dict)
         /\ appends[j].searched =
              Len(FlattenSongs(SetsOf(concerts_dict[appends[j].concert].json)))
         /\ \A l \in 1..Len(appends) : appends[l].concert = appends[j].concert => l = j
         /\ \/ appends[j].concert < ci
            \/ appends[j].concert = ci /\ pc = "append raised" /\ ~appends[j].ok
         /\ ~NoTracksError(appends[j].concert)
    /\ \A c \in 1..Len(concerts_dict) :
         (c < ci /\ ~\E j \in 1..Len(appends) : appends[j].concert = c) =>
             NoTracksError(c)
    /\ AfterConcert =>
         IF track_uris # <<>>
         THEN appends # <<>> /\ appends[Len(appends)] =
                [concert |-> ci - 1, uris |-> track_uris,
                 searched |-> Len(searches), ok |-> TRUE]
         ELSE NoTracksError(ci - 1)
    /\ playlist_id # None => TracksOf(playlist_id[1]) = Appended(appends)

C10_Witness ==
    /\ pc = "search raised"
    /\ ci = 2
    /\ track_uris # <<>>
    /\ Len(appends) = 1
    /\ TracksOf(playlist_id[1]) = appends[1].uris

\* C11: with no setlist file in the input directory the run still resolves the
\* playlist (the listed one of that name, or a new one when none is listed or
\* no name is given), searches nothing, appends nothing and logs no error.
C11_EmptyDirectory ==
    dir_files = <<>> =>
        /\ pc \in {"resolve", "read", "concert", "done"}
        /\ searches = <<>>
        /\ appends = <<>>
        /\ track_uris = <<>>
        /\ log = <<>>
        /\ \A i \in 1..Len(sp_playlists) : sp_playlists[i].tracks = <<>>
        /\ pc # "resolve" =>
             /\ playlist_id # None
             /\ \E i \in 1..Len(sp_playlists) :
                  /\ sp_playlists[i].id = playlist_id[1]
                  /\ sp_playlists[i].name = WantedName
             /\ IF /\ playlist_name # None
                   /\ \E i \in 1..Len(sp_playlists) :
                        /\ sp_playlists[i].name = WantedName
                        /\ sp_playlists[i].id \notin created
                THEN created = {}
                ELSE created = {playlist_id[1]}

C11_Witness ==
    /\ dir_files = <<>>
    /\ pc = "done"
    /\ concerts_dict = <<>>
    /\ playlist_id # None
    /\ created = {playlist_id[1]}

AppendsOf(c) == {j \in 1..Len(appends) : appends[j].concert = c}

\* C12: an append call that fails is made once and is the last thing the run
\* does: it is not retried, no later concert is searched or appended, and the
\* tracks appended for the earlier concerts stay in the playlist.
C12_AppendFailureEndsRun ==
    /\ [](/\ \A j \in 1..Len(appends) :
               ~appends[j].ok =>
                   /\ j = Len(appends)
                   /\ pc = "append raised"
                   /\ appends[j].concert = ci
                   /\ appends[j].uris = track_uris
          /\ pc = "append raised" =>
               /\ appends # <<>>
               /\ ~appends[Len(appends)].ok
               /\ Cardinality(AppendsOf(ci)) = 1
               /\ ci <= Len(concerts_dict)
               /\ \A j \in 1..Len(appends) : appends[j].concert <= ci
               /\ \A j \in 1..Len(log) : log[j].concert <= ci
               /\ \A k \in 1..Len(searches) :
                    searches[k].artist_name = ArtistOf(concerts_dict[ci].json)
               /\ TracksOf(playlist_id[1]) =
                    Appended(SubSeq(appends, 1, Len(appends) - 1)))
    /\ [][pc = "append raised" => vars' = vars]_vars

C12_Witness ==
    /\ pc = "append raised"
    /\ ci = 2
    /\ Len(appends) = 2
    /\ appends[1].ok
    /\ appends[1].concert = 1
    /\ TracksOf(playlist_id[1]) = appends[1].uris

\* the record's own date as the query carries it: DD-MM-YYYY
OwnQueryDate(row) ==
    ZeroPad(row.Day, 2) \o <<"-">> \o ZeroPad(row.Month, 2) \o <<"-">>
        \o ZeroPad(row.Year, 4)

\* a component of the display date: the override cell when it is not empty,
\* the concert date's component otherwise
Shown(json_x, x) == IF json_x # Empty THEN json_x ELSE x

DisplayName(row, idx) ==
    ZeroPad(Shown(row.JSON_Year, row.Year), 4) \o <<"-">>
        \o ZeroPad(Shown(row.JSON_Month, row.Month), 2) \o <<"-">>
        \o ZeroPad(Shown(row.JSON_Day, row.Day), 2) \o <<"_">>
        \o IntStr(idx + 1) \o <<"_">> \o row.Group \o <<".", "j", "s", "o", "n">>

NoOverride(row) ==
    row.JSON_Day = Empty /\ row.JSON_Month = Empty /\ row.JSON_Year = Empty

OwnDateName(row, idx) ==
    ZeroPad(row.Year, 4) \o <<"-">> \o ZeroPad(row.Month, 2) \o <<"-">>
        \o ZeroPad(row.Day, 2) \o <<"_">> \o IntStr(idx + 1) \o <<"_">>
        \o row.Group \o <<".", "j", "s", "o", "n">>

\* C13: every query carries the record's group and its own Day/Month/Year,
\* whatever the override columns hold; every file written is named by the date
\* whose day, month and year each come from the override cell when it is not
\* empty and from the concert date otherwise, so a record without override is
\* named by its concert date.
C13_QueryOwnDateNameOverride ==
    /\ pc \in {"request", "await"} =>
         params = [artistName |-> concerts_df[index + 1].Group,
                   date |-> OwnQueryDate(concerts_df[index + 1])]
    /\ \A j \in 1..Len(writes) :
         LET row == concerts_df[writes[j].index + 1] IN
           /\ writes[j].name = DisplayName(row, writes[j].index)
           /\ writes[j].name \in DOMAIN files
           /\ writes[j].doc.setlist[1].eventDate = OwnQueryDate(row)
           /\ NoOverride(row) => writes[j].name = OwnDateName(row, writes[j].index)

C13_Witness ==
    /\ Len(writes) >= 1
    /\ concerts_df[1].JSON_Month = 3
    /\ concerts_df[1].JSON_Day = Empty
    /\ concerts_df[1].JSON_Year = Empty
    /\ writes[1].index = 0
    /\ writes[1].name = <<"2", "0", "2", "3", "-", "0", "3", "-", "0", "2", "_", "1",
                          "_", "a", ".", "j", "s", "o", "n">>
    /\ writes[1].doc.setlist[1].eventDate =
         <<"0", "2", "-", "0", "1", "-", "2", "0", "2", "3">>

=============================================================================
